---- MODULE Spec2Model ----
(***************************************************************************)
(* FactLens backend (src/backend/main.py): claim extraction with its       *)
(* heuristic fallback, lexical search over the knowledge graph, verdict    *)
(* assessment with sanitising of the oracle's reply, and the /verify       *)
(* orchestrator.                                                           *)
(*                                                                         *)
(* Strings are sequences of one-character strings.  JSON values coming     *)
(* back from the oracle are records tagged by their JSON type in field t.  *)
(* Floats are counted in tenths (10 is 1.0), with records for NaN and the  *)
(* infinities.                                                             *)
(***************************************************************************)
EXTENDS Integers, Sequences, FiniteSets, TLC

VARIABLES
    pc,             \* position in the handler / driver
    text,           \* req.text, then verify's local text
    extract_reply,  \* what the claim-extraction oracle answered
    claims,         \* list returned by extract_claims_via_llm
    claim,          \* claims[0]
    entity_ids,     \* argument of search_kg: [none, ids]
    kg_evidence,    \* list returned by search_kg
    assess_reply,   \* what the assessment oracle answered
    assessment,     \* dict returned by assess_claim_via_llm
    result,         \* the VerifyResponse returned by verify
    ended_at,       \* which return statement of verify produced result
    extract_calls,  \* calls made to the oracle by extract_claims_via_llm
    assess_calls,   \* calls made to the oracle by assess_claim_via_llm
    FACTS,          \* KG["facts"]
    query,          \* argument of search_kg
    top_k,          \* argument of search_kg
    prev_results    \* result of the previous search_kg call with these inputs

vars == <<pc, text, extract_reply, claims, claim, entity_ids, kg_evidence,
          assess_reply, assessment, result, ended_at, extract_calls,
          assess_calls, FACTS, query, top_k, prev_results>>

(***************************************************************************)
(* Bounds                                                                  *)
(***************************************************************************)
MaxTextLen == 9
MaxFacts == 3
MaxCites == 2

(***************************************************************************)
(* Characters and str methods                                              *)
(***************************************************************************)
\* characters matched by \w
WordChars == {"a", "b", "c", "A"}
\* characters removed by str.strip()
Whitespace == {" ", "\n"}
\* the character class [.\n!?] of the heuristic's re.split
Terminators == {".", "\n", "!", "?"}

\* str.lower() on one character
LowerChar(ch) == IF ch = "A" THEN "a" ELSE ch

\* str.lower()
Lower(s) == [i \in 1..Len(s) |-> LowerChar(s[i])]

RECURSIVE LStrip(_)
LStrip(s) ==
    IF s # <<>> /\ Head(s) \in Whitespace THEN LStrip(Tail(s)) ELSE s

RECURSIVE RStrip(_)
RStrip(s) ==
    IF s # <<>> /\ s[Len(s)] \in Whitespace
    THEN RStrip(SubSeq(s, 1, Len(s) - 1))
    ELSE s

\* str.strip()
Strip(s) == RStrip(LStrip(s))

RECURSIVE TokScan(_, _, _)
TokScan(s, cur, acc) ==
    IF s = <<>>
    THEN IF cur = <<>> THEN acc ELSE Append(acc, cur)
    ELSE IF Head(s) \in WordChars
         THEN TokScan(Tail(s), Append(cur, Head(s)), acc)
         ELSE TokScan(Tail(s), <<>>, IF cur = <<>> THEN acc ELSE Append(acc, cur))

\* re.findall(r"\w+", s.lower()): the maximal runs of word characters
tokenize(s) == TokScan(Lower(s), <<>>, <<>>)

\* set(tokenize(s))
TokenSet(s) == {tokenize(s)[i] : i \in 1..Len(tokenize(s))}

RECURSIVE SplitScan(_, _, _, _)
SplitScan(s, cur, acc, inRun) ==
    IF s = <<>>
    THEN Append(acc, cur)
    ELSE IF Head(s) \in Terminators
         THEN IF inRun
              THEN SplitScan(Tail(s), <<>>, acc, TRUE)
              ELSE SplitScan(Tail(s), <<>>, Append(acc, cur), TRUE)
         ELSE SplitScan(Tail(s), Append(cur, Head(s)), acc, FALSE)

\* re.split(r"[.\n!?]+", s): the pieces between runs of terminators, the
\* empty piece before a leading run and after a trailing run included
ReSplit(s) == SplitScan(s, <<>>, <<>>, FALSE)

\* substring test: needle in hay
Contains(hay, needle) ==
    \E i \in 0..Len(hay) :
        /\ i + Len(needle) <= Len(hay)
        /\ SubSeq(hay, i + 1, i + Len(needle)) = needle

(***************************************************************************)
(* Fallback heuristic for claims                                           *)
(***************************************************************************)
\* the ">= 4" of _heuristic_claim_from_text
MinTokens == 4

NoneStr == [none |-> TRUE, v |-> <<>>]
SomeStr(s) == [none |-> FALSE, v |-> s]

\* faulty variant: returns None when no fragment qualifies
heuristic_no_whole(t) ==
    LET stripped == Strip(t)
        parts == ReSplit(stripped)
        good == {i \in 1..Len(parts) :
                    /\ Strip(parts[i]) # <<>>
                    /\ Len(tokenize(Strip(parts[i]))) >= MinTokens}
    IN  IF stripped = <<>> THEN NoneStr
        ELSE IF good # {}
             THEN SomeStr(Strip(parts[CHOOSE i \in good : \A j \in good : i <= j]))
             ELSE NoneStr

\* _heuristic_claim_from_text
heuristic_claim_from_text(t) ==
    LET stripped == Strip(t)
        parts == ReSplit(stripped)
        good == {i \in 1..Len(parts) :
                    /\ Strip(parts[i]) # <<>>
                    /\ Len(tokenize(Strip(parts[i]))) >= MinTokens}
    IN  IF stripped = <<>> THEN NoneStr
        ELSE IF good # {}
             THEN SomeStr(Strip(parts[CHOOSE i \in good : \A j \in good : i <= j]))
             ELSE SomeStr(stripped)

\* [hc] if hc else []
HeuristicClaims(t) ==
    LET hc == heuristic_claim_from_text(t)
    IN  IF hc.none \/ hc.v = <<>> THEN <<>> ELSE <<hc.v>>

(***************************************************************************)
(* Claim extraction                                                        *)
(***************************************************************************)
\* an element of the JSON array the oracle returned
StrItem(s) == [t |-> "str", v |-> s]
NonStrItem == [t |-> "num", v |-> <<>>]

\* [c.strip() for c in claims if isinstance(c, str) and c.strip()]
RECURSIVE Cleaned(_)
Cleaned(items) ==
    IF items = <<>> THEN <<>>
    ELSE LET c == Head(items)
         IN  IF c.t = "str" /\ Strip(c.v) # <<>>
             THEN <<Strip(c.v)>> \o Cleaned(Tail(items))
             ELSE Cleaned(Tail(items))

\* Replies of the oracle to the extraction prompt:
\*   raise    the call raised, or the content was None (raw[:400] raises)
\*   text     content that json.loads rejects
\*   json     JSON that is not a list
\*   list     a JSON array with the given items
ExtractReplies ==
    { [kind |-> "raise", items |-> <<>>],
      [kind |-> "text", items |-> <<>>],
      [kind |-> "json", items |-> <<>>],
      [kind |-> "list", items |-> <<>>],
      [kind |-> "list", items |-> <<NonStrItem, StrItem(<<" ">>)>>],
      [kind |-> "list", items |-> <<StrItem(<<" ", "a", " ", "b">>)>>],
      [kind |-> "list", items |-> <<StrItem(<<"c">>), StrItem(<<"a">>)>>] }

\* faulty variant: returns the cleaned list of a JSON array even when it is empty
extract_claims_trusting_empty(t, reply) ==
    IF reply.kind = "list"
    THEN Cleaned(reply.items)
    ELSE HeuristicClaims(t)

\* extract_claims_via_llm
extract_claims_via_llm(t, reply) ==
    IF reply.kind = "list" /\ Cleaned(reply.items) # <<>>
    THEN Cleaned(reply.items)
    ELSE HeuristicClaims(t)

(***************************************************************************)
(* Knowledge graph                                                         *)
(***************************************************************************)
\* KG["entities"] of the demo graph
ENTITIES ==
    << [id |-> "e1", name |-> <<"A">>, aliases |-> << <<"b", " ", "b">> >>],
       [id |-> "e2", name |-> <<"c">>, aliases |-> <<>>] >>

\* a fact of KG["facts"]; predicate, date and severity play no part in the
\* search or in the citations and are left out
Fact(id, subject, locs, label, snippet, source) ==
    [id |-> id, subject_entity_id |-> subject, location_entity_ids |-> locs,
     object_label |-> label, evidence_snippet |-> snippet, source_id |-> source]

\* KG["facts"] of the demo graph
DemoFacts ==
    << Fact("f1", "e1", <<>>, <<"a", " ", "b">>, <<"b">>, "s1"),
       Fact("f2", "e2", <<"e1">>, <<"A">>, <<"c">>, "s1"),
       Fact("f3", "e2", <<>>, <<"c">>, <<>>, "s2") >>

\* extract_entities, as the set it builds
extract_entities(t) ==
    {ENTITIES[i].id : i \in
        {j \in 1..Len(ENTITIES) :
            \/ Contains(Lower(t), Lower(ENTITIES[j].name))
            \/ \E a \in 1..Len(ENTITIES[j].aliases) :
                   Contains(Lower(t), Lower(ENTITIES[j].aliases[a]))}}

\* list(entity_ids): the set in any of the orders iteration may give
EntityLists(S) ==
    {l \in [1..Cardinality(S) -> S] : \A i, j \in 1..Cardinality(S) :
                                          l[i] = l[j] => i = j}

(***************************************************************************)
(* search_kg                                                               *)
(***************************************************************************)
\* the default top_k, which verify passes too
TopK == 5

EntityIdSet(eids) == {eids.ids[i] : i \in 1..Len(eids.ids)}

\* "if entity_ids:" is true for a list that is given and not empty
Truthy(eids) == ~eids.none /\ eids.ids # <<>>

\* faulty variant: filters on the subject alone
PassesEntityFilterSubjectOnly(fact, eids) ==
    \/ ~Truthy(eids)
    \/ fact.subject_entity_id \in EntityIdSet(eids)

\* the entity filter: the fact is not skipped by "continue"
PassesEntityFilter(fact, eids) ==
    \/ ~Truthy(eids)
    \/ fact.subject_entity_id \in EntityIdSet(eids)
    \/ \E i \in 1..Len(fact.location_entity_ids) :
           fact.location_entity_ids[i] \in EntityIdSet(eids)

\* q_tokens.intersection(tokens)
Overlap(q, fact) ==
    TokenSet(q) \cap (TokenSet(fact.object_label) \cup TokenSet(fact.evidence_snippet))

\* scored_facts after the loop over FACTS, in the order of FACTS
RECURSIVE ScoredFrom(_, _, _, _)
ScoredFrom(facts, i, q, eids) ==
    IF i > Len(facts) THEN <<>>
    ELSE IF PassesEntityFilter(facts[i], eids) /\ Overlap(q, facts[i]) # {}
         THEN << [score |-> Cardinality(Overlap(q, facts[i])), fact |-> facts[i]] >>
              \o ScoredFrom(facts, i + 1, q, eids)
         ELSE ScoredFrom(facts, i + 1, q, eids)

\* faulty variant: puts an element before the elements of equal score
RECURSIVE InsertBeforeEqual(_, _)
InsertBeforeEqual(sorted, x) ==
    IF sorted = <<>> THEN <<x>>
    ELSE IF Head(sorted).score > x.score
         THEN <<Head(sorted)>> \o InsertBeforeEqual(Tail(sorted), x)
         ELSE <<x>> \o sorted

\* x goes after every element whose score is at least its own
RECURSIVE InsertDesc(_, _)
InsertDesc(sorted, x) ==
    IF sorted = <<>> THEN <<x>>
    ELSE IF Head(sorted).score >= x.score
         THEN <<Head(sorted)>> \o InsertDesc(Tail(sorted), x)
         ELSE <<x>> \o sorted

RECURSIVE SortFrom(_, _)
SortFrom(acc, rest) ==
    IF rest = <<>> THEN acc
    ELSE SortFrom(InsertDesc(acc, Head(rest)), Tail(rest))

\* scored_facts.sort(key=lambda x: x[0], reverse=True): a stable sort, which
\* keeps elements of equal key in their original order under reverse too
SortByScoreDesc(scored) == SortFrom(<<>>, scored)

\* seq[:k], a negative k counting from the end
PySlice(seq, k) ==
    IF k >= 0
    THEN SubSeq(seq, 1, IF k < Len(seq) THEN k ELSE Len(seq))
    ELSE SubSeq(seq, 1, IF Len(seq) + k > 0 THEN Len(seq) + k ELSE 0)

\* the evidence record built for a scored fact
EvidenceRecord(sf) ==
    [fact_id |-> sf.fact.id, score |-> sf.score, source_id |-> sf.fact.source_id]

\* search_kg over the facts given
search_facts(facts, q, eids, k) ==
    LET top == PySlice(SortByScoreDesc(ScoredFrom(facts, 1, q, eids)), k)
    IN  [i \in 1..Len(top) |-> EvidenceRecord(top[i])]

\* search_kg
search_kg(q, eids, k) == search_facts(FACTS, q, eids, k)

(***************************************************************************)
(* Floats and JSON values                                                  *)
(***************************************************************************)
\* 0.0, 0.5 and 1.0 in tenths
Zero == 0
Half == 5
One == 10

Fin(n) == [k |-> "fin", v |-> n]
NaN == [k |-> "nan", v |-> 0]
PosInf == [k |-> "inf", v |-> 1]
NegInf == [k |-> "inf", v |-> -1]

\* a < b on floats: false when either is NaN
FloatLt(a, b) ==
    IF a.k = "nan" \/ b.k = "nan" THEN FALSE
    ELSE IF a.k = "inf" THEN a.v < 0 /\ ~(b.k = "inf" /\ b.v < 0)
    ELSE IF b.k = "inf" THEN b.v > 0
    ELSE a.v < b.v

\* min(a, b): the first argument unless the second is smaller
PyMin(a, b) == IF FloatLt(b, a) THEN b ELSE a

\* max(a, b): the first argument unless the second is greater
PyMax(a, b) == IF FloatLt(a, b) THEN b ELSE a

\* A JSON value in the "confidence" field, by what json.loads makes of it:
\*   num     a number a float holds, v tenths
\*   nan     the literal NaN
\*   inf     Infinity or a literal beyond the floats such as 1e400, v its sign
\*   bigint  an integer literal too large for a float, v its sign
\*   strnum  a string that float() parses, such as "0.7", v tenths
\*   str     any other string
\*   bool    true (v = 1) or false (v = 0)
\*   null, list
Conf(t, v) == [t |-> t, v |-> v]

\* float(x): ok is FALSE when float raises (TypeError, ValueError,
\* OverflowError)
PyFloat(x) ==
    CASE x.t = "num" -> [ok |-> TRUE, val |-> Fin(x.v)]
      [] x.t = "nan" -> [ok |-> TRUE, val |-> NaN]
      [] x.t = "inf" -> [ok |-> TRUE, val |-> IF x.v > 0 THEN PosInf ELSE NegInf]
      [] x.t = "strnum" -> [ok |-> TRUE, val |-> Fin(x.v)]
      [] x.t = "bool" -> [ok |-> TRUE, val |-> Fin(x.v * One)]
      [] OTHER -> [ok |-> FALSE, val |-> NaN]

\* faulty variant: clamps from above only
ClampUpperOnly(x) ==
    LET f == PyFloat(x)
        conf == IF f.ok THEN f.val ELSE Fin(Half)
    IN  PyMin(Fin(One), conf)

\* try: conf = float(...) except: conf = 0.5; max(0.0, min(1.0, conf))
ClampConfidence(x) ==
    LET f == PyFloat(x)
        conf == IF f.ok THEN f.val ELSE Fin(Half)
    IN  PyMax(Fin(Zero), PyMin(Fin(One), conf))

\* a JSON string or null in the "verdict" and "reasoning" fields
JStr(s) == [t |-> "str", v |-> s]
JNull == [t |-> "null", v |-> ""]

(***************************************************************************)
(* Verdict assessment                                                      *)
(***************************************************************************)
\* An element of the "citations" array: a string (v the fact id it names),
\* null, or a nested array, which cannot be hashed.
Cite(id) == [t |-> "str", v |-> id]
CiteNull == [t |-> "null", v |-> ""]
CiteList == [t |-> "list", v |-> ""]

\* {e["fact_id"] for e in kg_evidence}
valid_fact_ids(ev) == {ev[i].fact_id : i \in 1..Len(ev)}

\* faulty variant: trusts the oracle's citations
KeepAllCitations(items, valid) ==
    LET strs == SelectSeq(items, LAMBDA c : c.t = "str")
    IN  [i \in 1..Len(strs) |-> strs[i].v]

\* [c for c in result["citations"] if c in valid_fact_ids]
RECURSIVE FilterCitations(_, _)
FilterCitations(items, valid) ==
    IF items = <<>> THEN <<>>
    ELSE LET c == Head(items)
         IN  IF c.t = "str" /\ c.v \in valid
             THEN <<c.v>> \o FilterCitations(Tail(items), valid)
             ELSE FilterCitations(Tail(items), valid)

\* the comprehension raises TypeError: the field cannot be iterated (a
\* number, null), or an element cannot be hashed
CitationsRaise(cit) ==
    \/ ~cit.iterable
    \/ \E i \in 1..Len(cit.items) : cit.items[i].t = "list"

Assessment(verdict, confidence, citations, reasoning) ==
    [set |-> TRUE, verdict |-> verdict, confidence |-> confidence,
     citations |-> citations, reasoning |-> reasoning]

\* the dict returned when the call to the oracle raises
CallFailedAssessment ==
    Assessment(JStr("Unverifiable"), Fin(Half), <<>>,
               JStr("LLM call failed; treating claim as unverifiable."))

\* the dict returned when the reply cannot be used
UnparsedAssessment ==
    Assessment(JStr("Unverifiable"), Fin(Half), <<>>,
               JStr("Could not parse model output. Treating as unverifiable."))

\* Replies of the oracle to the assessment prompt:
\*   raise    the call raised, or the content was None
\*   text     content that json.loads rejects
\*   json     JSON that is not an object
\*   partial  an object without one of the four fields
\*   dict     an object with the four fields
\* assess_claim_via_llm
assess_claim_via_llm(c, ev, reply) ==
    IF reply.kind = "raise" THEN CallFailedAssessment
    ELSE IF reply.kind = "dict" /\ ~CitationsRaise(reply.citations)
    THEN Assessment(reply.verdict,
                    ClampConfidence(reply.confidence),
                    FilterCitations(reply.citations.items, valid_fact_ids(ev)),
                    reply.reasoning)
    ELSE UnparsedAssessment

(***************************************************************************)
(* Values of the variables a specification does not use                    *)
(***************************************************************************)
NoReply == [kind |-> "none", items |-> <<>>]
NoEntityIds == [none |-> TRUE, ids |-> <<>>]
NoAssessReply == [kind |-> "none"]
NoAssessment == [set |-> FALSE]
NoResult == [set |-> FALSE]

(***************************************************************************)
(* /verify                                                                 *)
(***************************************************************************)
Response(c, verdict, confidence, citations, reasoning) ==
    [set |-> TRUE, claim |-> c, verdict |-> verdict, confidence |-> confidence,
     citations |-> citations, reasoning |-> reasoning]

\* faulty variant: answers a short-circuit with confidence 0
ShortCircuitZeroConfidence(c, reasoning) ==
    Response(c, "Unverifiable", Fin(Zero), <<>>, reasoning)

\* the VerifyResponse of the three early returns
ShortCircuitResponse(c, reasoning) ==
    Response(c, "Unverifiable", Fin(Half), <<>>, reasoning)

\* the loop building the Citation list: a fact id that no fact of FACTS
\* carries is skipped
RECURSIVE BuildCitations(_)
BuildCitations(ids) ==
    IF ids = <<>> THEN <<>>
    ELSE LET found == {i \in 1..Len(FACTS) : FACTS[i].id = Head(ids)}
         IN  IF found = {} THEN BuildCitations(Tail(ids))
             ELSE << [fact_id |-> Head(ids),
                      source_id |-> FACTS[CHOOSE i \in found :
                                              \A j \in found : i <= j].source_id] >>
                  \o BuildCitations(Tail(ids))

\* VerifyResponse declares verdict: str and reasoning: str; the model's
\* validation raises for a value that is not a string
ResponseValidates(a) == a.verdict.t = "str" /\ a.reasoning.t = "str"

\* what the two oracles may answer and what a request may carry
RequestTexts ==
    { <<>>, <<" ">>, <<".">>, <<"a">>, <<"b">>,
      <<" ", "c", " ", "A", ".", " ">>,
      <<"b", "\n", "c", "?">>,
      <<"a", "!", " ", "a", " ", "b", " ", "b", " ", "c", ".", "c">> }

\* f1, f2 are facts of the demo graph, f9 is not
CiteItems == {Cite("f1"), Cite("f2"), Cite("f9"), CiteNull, CiteList}

\* the field is a number, the string "f1" (whose elements are its
\* characters), or an array
CitationFields ==
    { [iterable |-> FALSE, items |-> <<>>],
      [iterable |-> TRUE, items |-> <<Cite("f"), Cite("1")>>] }
    \cup { [iterable |-> TRUE, items |-> l] :
             l \in UNION {[1..n -> CiteItems] : n \in 0..MaxCites} }

ConfValues ==
    { Conf("num", -5), Conf("num", 0), Conf("num", 7), Conf("num", 10),
      Conf("num", 15), Conf("nan", 0), Conf("inf", 1), Conf("inf", -1),
      Conf("bigint", 1), Conf("strnum", 7), Conf("str", 0), Conf("bool", 1),
      Conf("null", 0) }

VerdictValues == {JStr("True"), JStr("Partly True"), JStr("Maybe"), JNull}

ReasoningValues == {JStr("r"), JNull}

AssessReply(kind, verdict, confidence, citations, reasoning) ==
    [kind |-> kind, verdict |-> verdict, confidence |-> confidence,
     citations |-> citations, reasoning |-> reasoning]

AssessReplies ==
    { AssessReply(k, JNull, Conf("null", 0),
                  [iterable |-> FALSE, items |-> <<>>], JNull) :
        k \in {"raise", "text", "json", "partial"} }
    \cup { AssessReply("dict", v, c, cit, r) :
             v \in VerdictValues, c \in ConfValues, cit \in CitationFields,
             r \in ReasoningValues }

\* text = (req.text or "").strip(); the return for an empty text
VerifyStart ==
    /\ pc = "start"
    /\ text' = Strip(text)
    /\ IF Strip(text) = <<>>
       THEN /\ result' = ShortCircuitResponse(<<>>, "No text provided.")
            /\ ended_at' = "empty"
            /\ pc' = "done"
       ELSE /\ pc' = "extract"
            /\ UNCHANGED <<result, ended_at>>
    /\ UNCHANGED <<extract_reply, claims, claim, entity_ids, kg_evidence,
                   assess_reply, assessment, extract_calls, assess_calls,
                   FACTS, query, top_k, prev_results>>

\* claims = extract_claims_via_llm(text); the return for no claims;
\* claim = claims[0]
VerifyExtract ==
    /\ pc = "extract"
    /\ \E reply \in ExtractReplies :
           /\ extract_reply' = reply
           /\ claims' = extract_claims_via_llm(text, reply)
    /\ extract_calls' = extract_calls + 1
    /\ IF claims' = <<>>
       THEN /\ result' = ShortCircuitResponse(<<>>,
                             "No verifiable factual claim found in the text.")
            /\ ended_at' = "no_claims"
            /\ pc' = "done"
            /\ UNCHANGED claim
       ELSE /\ claim' = claims'[1]
            /\ pc' = "link"
            /\ UNCHANGED <<result, ended_at>>
    /\ UNCHANGED <<text, entity_ids, kg_evidence, assess_reply, assessment,
                   assess_calls, FACTS, query, top_k, prev_results>>

\* entity_ids = extract_entities(claim)
VerifyLink ==
    /\ pc = "link"
    /\ \E l \in EntityLists(extract_entities(claim)) :
           entity_ids' = [none |-> FALSE, ids |-> l]
    /\ pc' = "search"
    /\ UNCHANGED <<text, extract_reply, claims, claim, kg_evidence,
                   assess_reply, assessment, result, ended_at, extract_calls,
                   assess_calls, FACTS, query, top_k, prev_results>>

\* kg_evidence = search_kg(claim, entity_ids=entity_ids, top_k=5); the
\* return for no evidence
VerifySearch ==
    /\ pc = "search"
    /\ kg_evidence' = search_kg(claim, entity_ids, TopK)
    /\ IF search_kg(claim, entity_ids, TopK) = <<>>
       THEN /\ result' = ShortCircuitResponse(claim,
                    "No relevant evidence was found in the knowledge graph.")
            /\ ended_at' = "no_evidence"
            /\ pc' = "done"
       ELSE /\ pc' = "assess"
            /\ UNCHANGED <<result, ended_at>>
    /\ UNCHANGED <<text, extract_reply, claims, claim, entity_ids,
                   assess_reply, assessment, extract_calls, assess_calls,
                   FACTS, query, top_k, prev_results>>

\* assessment = assess_claim_via_llm(claim, kg_evidence)
VerifyAssess ==
    /\ pc = "assess"
    /\ \E reply \in AssessReplies :
           /\ assess_reply' = reply
           /\ assessment' = assess_claim_via_llm(claim, kg_evidence, reply)
    /\ assess_calls' = assess_calls + 1
    /\ pc' = "respond"
    /\ UNCHANGED <<text, extract_reply, claims, claim, entity_ids, kg_evidence,
                   result, ended_at, extract_calls, FACTS, query, top_k,
                   prev_results>>

\* the citations loop and resp = VerifyResponse(...), which raises when the
\* assessment's verdict or reasoning is not a string
VerifyRespond ==
    /\ pc = "respond"
    /\ IF ResponseValidates(assessment)
       THEN /\ result' = Response(claim, assessment.verdict.v,
                                  assessment.confidence,
                                  BuildCitations(assessment.citations),
                                  assessment.reasoning.v)
            /\ ended_at' = "assessed"
            /\ pc' = "done"
       ELSE /\ pc' = "raised"
            /\ UNCHANGED <<result, ended_at>>
    /\ UNCHANGED <<text, extract_reply, claims, claim, entity_ids, kg_evidence,
                   assess_reply, assessment, extract_calls, assess_calls,
                   FACTS, query, top_k, prev_results>>

(***************************************************************************)
(* Spec: one request to /verify against the demo graph                     *)
(***************************************************************************)
Init ==
    /\ pc = "start"
    /\ text \in RequestTexts
    /\ FACTS = DemoFacts
    /\ extract_reply = NoReply
    /\ claims = <<>>
    /\ claim = <<>>
    /\ entity_ids = NoEntityIds
    /\ kg_evidence = <<>>
    /\ assess_reply = NoAssessReply
    /\ assessment = NoAssessment
    /\ result = NoResult
    /\ ended_at = "none"
    /\ extract_calls = 0
    /\ assess_calls = 0
    /\ query = <<>>
    /\ top_k = 0
    /\ prev_results = <<>>

Next ==
    \/ VerifyStart
    \/ VerifyExtract
    \/ VerifyLink
    \/ VerifySearch
    \/ VerifyAssess
    \/ VerifyRespond

Spec == Init /\ [][Next]_vars

(***************************************************************************)
(* SpecClaims: extract_claims_via_llm called on every short text           *)
(***************************************************************************)
TextChars == {"a", " ", "."}
Texts == UNION {[1..n -> TextChars] : n \in 0..MaxTextLen}

InitClaims ==
    /\ pc = "start"
    /\ text \in Texts
    /\ extract_reply = NoReply
    /\ claims = <<>>
    /\ claim = <<>>
    /\ entity_ids = NoEntityIds
    /\ kg_evidence = <<>>
    /\ assess_reply = NoAssessReply
    /\ assessment = NoAssessment
    /\ result = NoResult
    /\ ended_at = "none"
    /\ extract_calls = 0
    /\ assess_calls = 0
    /\ FACTS = <<>>
    /\ query = <<>>
    /\ top_k = 0
    /\ prev_results = <<>>

\* a call extract_claims_via_llm(text) with the oracle answering reply
CallExtract ==
    /\ pc = "start"
    /\ \E reply \in ExtractReplies :
           /\ extract_reply' = reply
           /\ claims' = extract_claims_via_llm(text, reply)
    /\ extract_calls' = extract_calls + 1
    /\ pc' = "returned"
    /\ UNCHANGED <<text, claim, entity_ids, kg_evidence, assess_reply,
                   assessment, result, ended_at, assess_calls, FACTS, query,
                   top_k, prev_results>>

NextClaims ==
    \/ CallExtract
    \/ VerifyStart
    \/ VerifyExtract

SpecClaims == InitClaims /\ [][NextClaims]_vars

(***************************************************************************)
(* SpecSearch: search_kg called, and called again, on small graphs         *)
(***************************************************************************)
FactIds == <<"f1", "f2", "f3", "f4", "f5">>

\* the facts a graph of SpecSearch is made of; a graph may hold one twice,
\* under two ids
FactBodies ==
    << Fact("", "e1", <<>>, <<"a", " ", "b">>, <<"b", " ", "c">>, "s1"),
       Fact("", "e2", <<"e1">>, <<"A">>, <<>>, "s1"),
       Fact("", "e2", <<>>, <<"b">>, <<"a">>, "s2"),
       Fact("", "e3", <<"e2", "e3">>, <<"c">>, <<"c", ".">>, "s2") >>

Graphs ==
    UNION { { [i \in 1..n |-> [FactBodies[g[i]] EXCEPT !.id = FactIds[i]]] :
                g \in [1..n -> 1..Len(FactBodies)] } : n \in 0..MaxFacts }

SearchQueries ==
    { <<>>, <<"a">>, <<"A", " ", "b">>, <<"c", " ", "a", " ", "b">>,
      <<"b", ".", "c">> }

SearchEntityIds ==
    { [none |-> TRUE, ids |-> <<>>],
      [none |-> FALSE, ids |-> <<>>],
      [none |-> FALSE, ids |-> <<"e1">>],
      [none |-> FALSE, ids |-> <<"e2">>],
      [none |-> FALSE, ids |-> <<"e3">>],
      [none |-> FALSE, ids |-> <<"e1", "e2">>],
      [none |-> FALSE, ids |-> <<"e2", "e1">>] }

SearchTopKs == {-1, 0, 1, 2, TopK}

InitSearch ==
    /\ pc = "start"
    /\ FACTS \in Graphs
    /\ query \in SearchQueries
    /\ entity_ids \in SearchEntityIds
    /\ top_k \in SearchTopKs
    /\ kg_evidence = <<>>
    /\ prev_results = <<>>
    /\ text = <<>>
    /\ extract_reply = NoReply
    /\ claims = <<>>
    /\ claim = <<>>
    /\ assess_reply = NoAssessReply
    /\ assessment = NoAssessment
    /\ result = NoResult
    /\ ended_at = "none"
    /\ extract_calls = 0
    /\ assess_calls = 0

\* search_kg(query, entity_ids, top_k)
Search ==
    /\ pc = "start"
    /\ kg_evidence' = search_kg(query, entity_ids, top_k)
    /\ pc' = "searched"
    /\ UNCHANGED <<text, extract_reply, claims, claim, entity_ids, assess_reply,
                   assessment, result, ended_at, extract_calls, assess_calls,
                   FACTS, query, top_k, prev_results>>

\* the same call once more; the first result is kept to compare
SearchAgain ==
    /\ pc = "searched"
    /\ prev_results' = kg_evidence
    /\ kg_evidence' = search_kg(query, entity_ids, top_k)
    /\ pc' = "repeated"
    /\ UNCHANGED <<text, extract_reply, claims, claim, entity_ids, assess_reply,
                   assessment, result, ended_at, extract_calls, assess_calls,
                   FACTS, query, top_k>>

NextSearch == Search \/ SearchAgain

SpecSearch == InitSearch /\ [][NextSearch]_vars

\* position in FACTS of the fact with this id
FactIndex(id) == CHOOSE i \in 1..Len(FACTS) : FACTS[i].id = id

Searched == pc \in {"searched", "repeated"}

\* C6: what search_kg returns is sorted by descending score, two facts of
\* equal score come in the order they have in FACTS, and a repeated call
\* with the same inputs returns the same sequence.
C6_SortedStableRepeatable ==
    Searched =>
        /\ \A i, j \in 1..Len(kg_evidence) :
               i < j =>
                   /\ kg_evidence[i].score >= kg_evidence[j].score
                   /\ kg_evidence[i].score = kg_evidence[j].score =>
                          FactIndex(kg_evidence[i].fact_id)
                              < FactIndex(kg_evidence[j].fact_id)
        /\ pc = "repeated" => kg_evidence = prev_results

\* a repeated call returned two facts of equal score and, below them or
\* above them, a fact of another score
C6_Witness ==
    /\ pc = "repeated"
    /\ \E i, j, k \in 1..Len(kg_evidence) :
           /\ i < j
           /\ kg_evidence[i].score = kg_evidence[j].score
           /\ kg_evidence[k].score # kg_evidence[i].score

\* the claim's eligibility: no list or an empty one, or the subject in the
\* list, or one of the locations in the list
C7_Eligible(fact) ==
    \/ entity_ids.none
    \/ entity_ids.ids = <<>>
    \/ \E e \in 1..Len(entity_ids.ids) :
           \/ entity_ids.ids[e] = fact.subject_entity_id
           \/ \E l \in 1..Len(fact.location_entity_ids) :
                  entity_ids.ids[e] = fact.location_entity_ids[l]

ResultIds == {kg_evidence[i].fact_id : i \in 1..Len(kg_evidence)}

\* C7: a fact is scored exactly when it is eligible: a fact that is not
\* eligible is never returned, whatever its overlap with the query; when
\* top_k does not cut the list, the facts returned are the eligible facts
\* that share a token with the query; and an empty entity_ids gives the
\* result of an absent one.
C7_EntityFilter ==
    Searched =>
        /\ \A i \in 1..Len(FACTS) :
               ~C7_Eligible(FACTS[i]) => FACTS[i].id \notin ResultIds
        /\ top_k >= Len(FACTS) =>
               ResultIds = {FACTS[i].id : i \in
                               {j \in 1..Len(FACTS) :
                                   /\ C7_Eligible(FACTS[j])
                                   /\ Overlap(query, FACTS[j]) # {}}}
        /\ (~entity_ids.none /\ entity_ids.ids = <<>>) =>
               kg_evidence = search_kg(query, [none |-> TRUE, ids |-> <<>>], top_k)

\* a list that names neither the subject nor a location of a fact sharing a
\* token with the query kept it out, while a fact named only by a location
\* was returned
C7_Witness ==
    /\ Searched
    /\ Truthy(entity_ids)
    /\ \E i \in 1..Len(FACTS) :
           /\ ~C7_Eligible(FACTS[i])
           /\ Overlap(query, FACTS[i]) # {}
    /\ \E i \in 1..Len(FACTS) :
           /\ FACTS[i].id \in ResultIds
           /\ FACTS[i].subject_entity_id \notin EntityIdSet(entity_ids)

(***************************************************************************)
(* Properties of /verify, under Spec                                       *)
(***************************************************************************)
Assessed == pc \in {"respond", "done", "raised"} /\ assessment.set

Returned == pc = "done" /\ result.set

\* C1: every citation assess_claim_via_llm returns names a fact of the
\* evidence list it was given, and every citation of the response of verify
\* names a fact of FACTS that was in the evidence retrieved for the request.
C1_CitationsFromEvidence ==
    /\ Assessed =>
           \A i \in 1..Len(assessment.citations) :
               assessment.citations[i] \in valid_fact_ids(kg_evidence)
    /\ Returned =>
           \A i \in 1..Len(result.citations) :
               /\ result.citations[i].fact_id \in valid_fact_ids(kg_evidence)
               /\ \E f \in 1..Len(FACTS) :
                      /\ FACTS[f].id = result.citations[i].fact_id
                      /\ FACTS[f].source_id = result.citations[i].source_id

\* the oracle cited a fact of the graph that was not in the evidence, and a
\* fact that was: the response carries a citation
C1_Witness ==
    /\ Returned
    /\ ended_at = "assessed"
    /\ result.citations # <<>>
    /\ \E i \in 1..Len(assess_reply.citations.items) :
           /\ assess_reply.citations.items[i].t = "str"
           /\ assess_reply.citations.items[i].v \notin valid_fact_ids(kg_evidence)
           /\ \E f \in 1..Len(FACTS) :
                  FACTS[f].id = assess_reply.citations.items[i].v

\* C2: verify ends by returning a response and never raises.
C2_NeverRaises == pc # "raised"

\* C3: the verdict of the response is one of the four verdicts.
C3_VerdictInEnum ==
    Returned =>
        result.verdict \in {"True", "False", "Partly True", "Unverifiable"}

\* C4: no fact id occurs twice in the citations of the response.
C4_UniqueCitations ==
    Returned =>
        \A i, j \in 1..Len(result.citations) :
            result.citations[i].fact_id = result.citations[j].fact_id => i = j

\* C5: a request that ends at an early return (empty text, no claims, no
\* evidence) is answered Unverifiable with confidence 0.5 and no citations,
\* the assessment oracle is not called in it, nor, for an empty text, the
\* extraction oracle; and the assessment oracle is called only with a text,
\* a claim and evidence that are not empty.
C5_ShortCircuit ==
    /\ (Returned /\ ended_at \in {"empty", "no_claims", "no_evidence"}) =>
           /\ result.verdict = "Unverifiable"
           /\ result.confidence = Fin(5)
           /\ result.citations = <<>>
           /\ assess_calls = 0
           /\ ended_at = "empty" => extract_calls = 0
    /\ (Returned /\ (text = <<>> \/ claims = <<>> \/ kg_evidence = <<>>)) =>
           ended_at \in {"empty", "no_claims", "no_evidence"}
    /\ assess_calls > 0 => (text # <<>> /\ claims # <<>> /\ kg_evidence # <<>>)

\* a claim was extracted and the search found no evidence for it
C5_Witness ==
    /\ Returned
    /\ ended_at = "no_evidence"
    /\ extract_calls = 1
    /\ claim # <<>>

\* the reply was an object with the four fields whose citations could be
\* filtered, so the assessment was built from it
FromReply ==
    /\ Assessed
    /\ assess_reply.kind = "dict"
    /\ ~CitationsRaise(assess_reply.citations)

InUnitInterval(f) == f.k = "fin" /\ 0 <= f.v /\ f.v <= 10

\* C9 as stated: a numeric confidence is clamped into [0,1], below 0 to 0
\* and above 1 to 1, a confidence that is not a number yields 0.5, and the
\* confidence of the response lies in [0,1].
C9_ClampAndDefault ==
    /\ FromReply =>
           LET c == assess_reply.confidence
               out == assessment.confidence
           IN  /\ (c.t = "num" /\ c.v < 0) => out = Fin(0)
               /\ (c.t = "num" /\ c.v > 10) => out = Fin(10)
               /\ (c.t = "num" /\ 0 <= c.v /\ c.v <= 10) => out = Fin(c.v)
               /\ c.t = "inf" => out = Fin(IF c.v > 0 THEN 10 ELSE 0)
               /\ (c.t = "bigint" /\ c.v > 0) => out = Fin(10)
               /\ c.t \in {"strnum", "str", "bool", "null", "list"} => out = Fin(5)
    /\ Returned => InUnitInterval(result.confidence)

\* C9 as amended: a confidence that float() converts (a number within the
\* floats, an infinity, NaN, a boolean, a string holding a number) is
\* clamped, below 0 to 0, above 1 and NaN to 1; one that float() rejects
\* (null, an array, any other string, an integer too large for a float)
\* yields 0.5; and the confidence of every assessment and response lies in
\* [0,1].
C9_ClampOfFloat ==
    /\ FromReply =>
           LET c == assess_reply.confidence
               out == assessment.confidence
           IN  /\ (c.t \in {"num", "strnum"} /\ c.v < 0) => out = Fin(0)
               /\ (c.t \in {"num", "strnum"} /\ c.v > 10) => out = Fin(10)
               /\ (c.t \in {"num", "strnum"} /\ 0 <= c.v /\ c.v <= 10) =>
                      out = Fin(c.v)
               /\ c.t = "bool" => out = Fin(IF c.v = 1 THEN 10 ELSE 0)
               /\ c.t = "inf" => out = Fin(IF c.v > 0 THEN 10 ELSE 0)
               /\ c.t = "nan" => out = Fin(10)
               /\ c.t \in {"bigint", "str", "null", "list"} => out = Fin(5)
    /\ Assessed => InUnitInterval(assessment.confidence)
    /\ Returned => InUnitInterval(result.confidence)

\* the oracle gave a confidence below 0 and the response carries 0
C9_Witness ==
    /\ Returned
    /\ ended_at = "assessed"
    /\ assess_reply.kind = "dict"
    /\ assess_reply.confidence.t = "num"
    /\ assess_reply.confidence.v < 0
    /\ result.confidence = Fin(0)

(***************************************************************************)
(* Properties of claim extraction, under SpecClaims                        *)
(***************************************************************************)
\* the oracle was called and failed, or answered what is no JSON array
ExtractionFellBack ==
    /\ extract_calls = 1
    /\ extract_reply.kind \in {"raise", "text", "json"}

\* the fragments of the trimmed text with at least 4 tokens
C8_Fragments(t) ==
    {i \in 1..Len(ReSplit(Strip(t))) : Len(tokenize(ReSplit(Strip(t))[i])) >= 4}

C8_First(t) == CHOOSE i \in C8_Fragments(t) : \A j \in C8_Fragments(t) : i <= j

\* C8 as stated: after a failed call or an unparsable reply the result is
\* the first fragment of the trimmed text with at least 4 tokens, or the
\* whole trimmed text when there is none, or no claim for an empty text.
C8_HeuristicFragment ==
    ExtractionFellBack =>
        claims = IF Strip(text) = <<>> THEN <<>>
                 ELSE IF C8_Fragments(text) # {}
                      THEN <<ReSplit(Strip(text))[C8_First(text)]>>
                      ELSE <<Strip(text)>>

\* C8 as amended: the fragment is returned with the whitespace around it
\* removed.
C8_HeuristicTrimmedFragment ==
    ExtractionFellBack =>
        claims = IF Strip(text) = <<>> THEN <<>>
                 ELSE IF C8_Fragments(text) # {}
                      THEN <<Strip(ReSplit(Strip(text))[C8_First(text)])>>
                      ELSE <<Strip(text)>>

\* the call raised and the claim is a fragment with 4 tokens that is not
\* the first piece of the text and had whitespace around it
C8_Witness ==
    /\ pc = "returned"
    /\ extract_reply.kind = "raise"
    /\ C8_Fragments(text) # {}
    /\ C8_First(text) > 1
    /\ claims = <<Strip(ReSplit(Strip(text))[C8_First(text)])>>
    /\ claims # <<ReSplit(Strip(text))[C8_First(text)]>>

\* C10: for a text that is not empty after trimming, whatever the oracle
\* answers, extract_claims_via_llm returns at least one claim and no empty
\* claim, and verify never takes the "no claim found" return.
C10_AlwaysAClaim ==
    /\ (extract_calls = 1 /\ Strip(text) # <<>>) =>
           /\ claims # <<>>
           /\ \A i \in 1..Len(claims) : claims[i] # <<>>
    /\ ended_at # "no_claims"

\* verify got an empty JSON array from the oracle and went on with a claim
C10_Witness ==
    /\ pc = "link"
    /\ extract_reply = [kind |-> "list", items |-> <<>>]
    /\ claim # <<>>
    /\ claim = claims[1]

====
